---- MODULE Spec2Model ----
(***************************************************************************)
(* Model of install-tool.py: download, verify and install binary tools.   *)
(*                                                                         *)
(* Bytes are identified by an integer id; what a byte string decodes to   *)
(* (container format and member list) is recorded in `upstream`.  A path  *)
(* string is the sequence of its "/"-separated components ("" for an      *)
(* empty component, so <<"", "uv">> is "/uv" and <<".", "uv">> is "./uv"). *)
(* A directory is a function from file name to [content, mode]; the       *)
(* helix runtime tree is a function from relative path to a node.         *)
(***************************************************************************)
EXTENDS Integers, Sequences, FiniteSets, TLC

VARIABLES
    registry,     \* TOOLS: name -> descriptor
    upstream,     \* what each tool's url serves: name -> [id, fmt, members]
    names,        \* install_tools argument: requested names
    use_sudo,     \* install_tools argument
    pc,           \* position inside install_tools
    i,            \* index of the name the for loop is at
    success,      \* local `success`
    returned,     \* value returned by install_tools (meaningful at pc = "done")
    tool,         \* local `tool` of the current iteration
    fetched,      \* download_and_verify: what urlopen(...).read() gave last
    tmp_files,    \* the NamedTemporaryFile of each iteration: index -> file
    tmp_dir,      \* the TemporaryDirectory of the current iteration
    members,      \* archive members being enumerated by tool.install
    m,            \* index of the member the extraction loop is at
    installed,    \* list returned by / accumulated in tool.install
    c,            \* index into `installed` of the placement loop
    runtime_dir,  \* tree under ~/.config/helix/runtime
    dest,         \* contents of dest_dir
    dest_before,  \* history: contents of dest_dir when the iteration began
    outcomes      \* history: how the loop finished with each name so far

vars == <<registry, upstream, names, use_sudo, pc, i, success, returned, tool,
          fetched, tmp_files, tmp_dir, members, m, installed, c, runtime_dir, dest,
          dest_before, outcomes>>

----------------------------------------------------------------------------
(* Bounds *)

MaxNames == 3      \* longest requested name list (orchestrator)
MaxMembers == 2    \* longest archive (extraction)
MaxStrip == 2      \* largest strip_components (extraction)
MaxData == 3       \* byte strings 0..MaxData (verification)

----------------------------------------------------------------------------
(* Digests: a hex digest is a sequence of one-character strings. *)

HexDigits == <<"0", "1", "2", "3", "4", "5", "6", "7",
               "8", "9", "a", "b", "c", "d", "e", "f">>

\* 16-bit stand-in for hashlib.sha256(data): injective on the ids used.
Sha256(data) == (data * 7919 + 43981) % 65536

\* .hexdigest(): fixed width, lowercase.
hexdigest(n) == << HexDigits[((n \div 4096) % 16) + 1],
                   HexDigits[((n \div 256) % 16) + 1],
                   HexDigits[((n \div 16) % 16) + 1],
                   HexDigits[(n % 16) + 1] >>

LowerChar(ch) == CASE ch = "A" -> "a" [] ch = "B" -> "b" [] ch = "C" -> "c"
                   [] ch = "D" -> "d" [] ch = "E" -> "e" [] ch = "F" -> "f"
                   [] OTHER -> ch

UpperChar(ch) == CASE ch = "a" -> "A" [] ch = "b" -> "B" [] ch = "c" -> "C"
                   [] ch = "d" -> "D" [] ch = "e" -> "E" [] ch = "f" -> "F"
                   [] OTHER -> ch

Lower(s) == [k \in 1..Len(s) |-> LowerChar(s[k])]
Upper(s) == [k \in 1..Len(s) |-> UpperChar(s[k])]

\* if actual_hash != self.sha256: raise   (normalising variant, not the code)
HashMismatch_lower(actual_hash, sha256) == Lower(actual_hash) # Lower(sha256)

\* no check at all
HashMismatch_never(actual_hash, sha256) == FALSE

\* if actual_hash != self.sha256: raise
HashMismatch(actual_hash, sha256) == actual_hash # sha256

----------------------------------------------------------------------------
(* Paths *)

Last(s) == s[Len(s)]

IsComponent(s) == s # "" /\ s # "."

\* pathlib: Path(name).parts.  Empty and "." components vanish, a leading
\* "/" is a part of its own, ".." is kept.
PathParts(raw) ==
    (IF Len(raw) > 1 /\ raw[1] = "" THEN <<"/">> ELSE <<>>)
        \o SelectSeq(raw, IsComponent)

\* parts.index("runtime"): position of the first such part
IndexOf(parts, x) == CHOOSE k \in 1..Len(parts) :
                        /\ parts[k] = x
                        /\ \A j \in 1..(k - 1) : parts[j] # x

Contains(parts, x) == \E k \in 1..Len(parts) : parts[k] = x

----------------------------------------------------------------------------
(* Files and directories *)

ExecMode == 7 * 64 + 5 * 8 + 5       \* 0o755
DefaultMode == 6 * 64 + 4 * 8 + 4    \* 0o644: mode of a file write_bytes creates

NoDir == [exists |-> FALSE, files |-> <<>>]
NoTmp == [exists |-> FALSE, written |-> FALSE, data |-> 0]

Put(dir, name, f) == [x \in (DOMAIN dir) \cup {name} |->
                        IF x = name THEN f ELSE dir[x]]

\* Path.write_bytes into a directory: an existing file keeps its mode
WriteBytes(dir, name, content) ==
    Put(dir, name, [content |-> content,
                    mode |-> IF name \in DOMAIN dir THEN dir[name].mode
                             ELSE DefaultMode])

Chmod(dir, name, mode) == Put(dir, name, [dir[name] EXCEPT !.mode = mode])

\* dir / name names a directory ("..", "/"): write_bytes raises
NotWritable(name) == name \in {"..", "/", "."}

----------------------------------------------------------------------------
(* Extraction.  The state touched by tool.install is the record w:       *)
(*   staging   = files of the directory passed as dest_dir (tmp_dest)     *)
(*   dest      = files of the real destination directory                  *)
(*   runtime   = tree under the helix runtime directory                   *)
(*   installed = the list `installed`                                     *)
(*   raised    = an exception left tool.install                           *)
(* io_ok = FALSE stands for an OSError of the write (disk full, ...).     *)

\* dest_path.write_bytes(...); dest_path.chmod(0o755); installed.append(name)
\* variant writing into the real destination instead of tmp_dest
StageWrite_dest(w, name, content, io_ok) ==
    IF NotWritable(name) \/ ~io_ok
    THEN [w EXCEPT !.raised = TRUE]
    ELSE [w EXCEPT !.dest = Chmod(WriteBytes(w.dest, name, content), name, ExecMode),
                   !.staging = Chmod(WriteBytes(w.staging, name, content), name, ExecMode),
                   !.installed = Append(@, name)]

\* variant that does not overwrite a name already extracted
StageWrite_keepfirst(w, name, content, io_ok) ==
    IF NotWritable(name) \/ ~io_ok
    THEN [w EXCEPT !.raised = TRUE]
    ELSE IF name \in DOMAIN w.staging
    THEN [w EXCEPT !.installed = Append(@, name)]
    ELSE [w EXCEPT !.staging = Chmod(WriteBytes(w.staging, name, content), name, ExecMode),
                   !.installed = Append(@, name)]

\* dest_path.write_bytes(...); dest_path.chmod(0o755); installed.append(name)
StageWrite(w, name, content, io_ok) ==
    IF NotWritable(name) \/ ~io_ok
    THEN [w EXCEPT !.raised = TRUE]
    ELSE [w EXCEPT !.staging = Chmod(WriteBytes(w.staging, name, content), name, ExecMode),
                   !.installed = Append(@, name)]

StripSkips_lt(parts, k) == Len(parts) < k

\* if len(parts) <= self.strip_components: continue
StripSkips(parts, k) == Len(parts) <= k

FilterSkips_never(t, name) == FALSE

\* if self.binaries and name not in self.binaries: continue
FilterSkips(t, name) == t.binaries # {} /\ name \notin t.binaries

\* TarGzTool._extract_binaries: one iteration of the loop over getmembers()
ExtractBinariesStep(t, member, w, io_ok) ==
    IF member.type # "file" THEN w
    ELSE LET parts == PathParts(member.name) IN
         IF StripSkips(parts, t.strip_components) THEN w
         ELSE IF FilterSkips(t, Last(parts)) THEN w
         ELSE StageWrite(w, Last(parts), member.data, io_ok)

\* ZipTool.install: one iteration of the loop over infolist()
ZipInstallStep(t, info, w, io_ok) ==
    IF info.type = "dir" THEN w
    ELSE LET parts == PathParts(info.name) IN
         IF StripSkips(parts, t.strip_components) THEN w
         ELSE IF FilterSkips(t, Last(parts)) THEN w
         ELSE StageWrite(w, Last(parts), info.data, io_ok)

(* The helix runtime tree: relative path -> [type, content] *)

Prefixes(p) == {SubSeq(p, 1, k) : k \in 0..Len(p)}

IsFileAt(tree, p) == p \in DOMAIN tree /\ tree[p].type = "file"
IsDirAt(tree, p) == p \in DOMAIN tree /\ tree[p].type = "dir"

\* Path.mkdir(parents=True, exist_ok=True) fails when a prefix is a file
MkdirFails(tree, p) == \E q \in Prefixes(p) : IsFileAt(tree, q)

Mkdir(tree, p) == [x \in (DOMAIN tree) \cup Prefixes(p) |->
                     IF x \in Prefixes(p) THEN [type |-> "dir", content |-> 0]
                     ELSE tree[x]]

Parent(p) == SubSeq(p, 1, Len(p) - 1)

\* dest_path.mkdir(parents=True, exist_ok=True)
RuntimeMkdir(w, rel) ==
    IF MkdirFails(w.runtime, rel)
    THEN [w EXCEPT !.raised = TRUE]
    ELSE [w EXCEPT !.runtime = Mkdir(w.runtime, rel)]

\* dest_path.parent.mkdir(parents=True, exist_ok=True); dest_path.write_bytes(...)
RuntimeWrite(w, rel, content, io_ok) ==
    IF MkdirFails(w.runtime, Parent(rel)) \/ ~io_ok
    THEN [w EXCEPT !.raised = TRUE]
    ELSE LET made == Mkdir(w.runtime, Parent(rel)) IN
         IF IsDirAt(made, rel)
         THEN [w EXCEPT !.raised = TRUE, !.runtime = made]
         ELSE [w EXCEPT !.runtime =
                  [x \in (DOMAIN made) \cup {rel} |->
                     IF x = rel THEN [type |-> "file", content |-> content]
                     ELSE made[x]]]

RuntimeRelPath_keep(parts) ==
    SubSeq(parts, IndexOf(parts, "runtime"), Len(parts))

\* idx = parts.index("runtime"); rel_path = Path(*parts[idx + 1:])
RuntimeRelPath(parts) ==
    SubSeq(parts, IndexOf(parts, "runtime") + 1, Len(parts))

\* if len(parts) < 2: continue
HelixSkips(parts) == Len(parts) < 2

\* HelixTool.install: one iteration of the loop over getmembers()
HelixInstallStep(t, member, w, io_ok) ==
    LET parts == PathParts(member.name) IN
    IF HelixSkips(parts) THEN w
    ELSE IF member.type = "file" /\ Last(parts) = "hx"
    THEN StageWrite(w, "hx", member.data, io_ok)
    ELSE IF Contains(parts, "runtime")
    THEN LET rel == RuntimeRelPath(parts) IN
         IF rel = <<>> THEN w
         ELSE IF member.type = "dir" THEN RuntimeMkdir(w, rel)
         ELSE IF member.type = "file"
         THEN RuntimeWrite(w, rel, member.data, io_ok)
         ELSE w
    ELSE w

\* BinaryTool.install: copy2(archive_path, dest_path); chmod; return [name]
BinaryInstall(t, data, w, io_ok) ==
    LET name == IF t.binary_name # "" THEN t.binary_name ELSE t.name IN
    StageWrite(w, name, data, io_ok)

\* the polymorphic loop body
InstallStep(t, member, w, io_ok) ==
    CASE t.kind = "Helix" -> HelixInstallStep(t, member, w, io_ok)
      [] t.kind = "Zip" -> ZipInstallStep(t, member, w, io_ok)
      [] OTHER -> ExtractBinariesStep(t, member, w, io_ok)

\* the container format each install() opens its archive as
OpenFormat(t) ==
    CASE t.kind = "TarGz" -> "tar.gz"
      [] t.kind = "TarXz" -> "tar.xz"
      [] t.kind = "Helix" -> "tar.xz"
      [] t.kind = "Zip" -> "zip"
      [] OTHER -> "raw"

\* what the bytes in the artifact file decode to
Junk == [id |-> 0, fmt |-> "junk", members |-> <<>>]

Decode(data) ==
    IF \E n \in DOMAIN upstream : upstream[n].id = data
    THEN upstream[CHOOSE n \in DOMAIN upstream : upstream[n].id = data]
    ELSE Junk

----------------------------------------------------------------------------
(* Tool.download_and_verify *)

\* the response of urlopen(self.url): URLError, or the bytes read
URLError == [ok |-> FALSE, data |-> 0]

download_and_verify(t, response, file) ==
    IF ~response.ok
    THEN [raised |-> TRUE, stage |-> "fetch", file |-> file]
    ELSE IF HashMismatch(hexdigest(Sha256(response.data)), t.sha256)
    THEN [raised |-> TRUE, stage |-> "hash", file |-> file]
    ELSE [raised |-> FALSE, stage |-> "",
          file |-> [file EXCEPT !.written = TRUE, !.data = response.data]]

----------------------------------------------------------------------------
(* install_tools *)

\* the loop state after each way an iteration can end

\* variant: the handler leaves the loop
except_Exception_break(idx, succ) == [i |-> Len(names) + 1, success |-> FALSE]

\* except Exception as e: ...; success = False      (then the next name)
except_Exception(idx, succ) == [i |-> idx + 1, success |-> FALSE]

\* if not tool: ...; success = False; continue
unknown_tool(idx, succ) == [i |-> idx + 1, success |-> FALSE]

\* the try block ran to its end: success is not touched
try_completed(idx, succ) == [i |-> idx + 1, success |-> succ]

\* sudo cp src dst, without the chmod that follows
sudo_cp(dir, name, f) ==
    Put(dir, name, [content |-> f.content,
                    mode |-> IF name \in DOMAIN dir THEN dir[name].mode
                             ELSE f.mode])

\* variant of the elevated placement that forgets the chmod
place_sudo_nochmod(dir, name, f, outcome) ==
    IF outcome = "cp_fail" THEN [raised |-> TRUE, dir |-> dir]
    ELSE [raised |-> outcome = "chmod_fail", dir |-> sudo_cp(dir, name, f)]

\* subprocess.run(["sudo", "cp", ...], check=True);
\* subprocess.run(["sudo", "chmod", "755", ...], check=True)
place_sudo(dir, name, f, outcome) ==
    IF outcome = "cp_fail" THEN [raised |-> TRUE, dir |-> dir]
    ELSE IF outcome = "chmod_fail"
    THEN [raised |-> TRUE, dir |-> sudo_cp(dir, name, f)]
    ELSE [raised |-> FALSE, dir |-> Chmod(sudo_cp(dir, name, f), name, ExecMode)]

\* shutil.copy2(src, dst); dst.chmod(0o755)
place_direct(dir, name, f, outcome) ==
    IF outcome # "ok" THEN [raised |-> TRUE, dir |-> dir]
    ELSE [raised |-> FALSE, dir |-> Chmod(Put(dir, name, f), name, ExecMode)]

PlaceOutcomes == {"ok", "cp_fail", "chmod_fail"}

\* the except handler: the with block of the staging directory has been
\* left (so it is removed), the artifact file is not touched
Raise(stage) ==
    LET nxt == except_Exception(i, success) IN
    /\ i' = nxt.i
    /\ success' = nxt.success
    /\ pc' = "loop"
    /\ tmp_dir' = NoDir
    /\ members' = <<>>
    /\ m' = 1
    /\ installed' = <<>>
    /\ c' = 1
    /\ outcomes' = Append(outcomes, [name |-> names[i], ok |-> FALSE,
                                     stage |-> stage, staged |-> Len(installed)])

UnknownTool ==
    /\ pc = "loop"
    /\ i <= Len(names)
    /\ names[i] \notin DOMAIN registry
    /\ LET nxt == unknown_tool(i, success) IN
       /\ i' = nxt.i
       /\ success' = nxt.success
    /\ outcomes' = Append(outcomes, [name |-> names[i], ok |-> FALSE,
                                     stage |-> "unknown", staged |-> 0])
    /\ UNCHANGED <<fetched, registry, upstream, names, use_sudo, pc, returned, tool,
                   tmp_files, tmp_dir, members, m, installed, c, runtime_dir,
                   dest, dest_before>>

\* tool = TOOLS.get(name); with tempfile.NamedTemporaryFile(delete=False) as tmp
BeginInstall ==
    /\ pc = "loop"
    /\ i <= Len(names)
    /\ names[i] \in DOMAIN registry
    /\ tool' = registry[names[i]]
    /\ tmp_files' = [tmp_files EXCEPT ![i] = [exists |-> TRUE, written |-> FALSE, data |-> 0]]
    /\ dest_before' = dest
    /\ pc' = "download"
    /\ UNCHANGED <<fetched, registry, upstream, names, use_sudo, i, success, returned,
                   tmp_dir, members, m, installed, c, runtime_dir, dest, outcomes>>

\* what the server can answer: nothing, the pinned bytes, or other bytes
Tampered == Junk.id
Responses(t) == {URLError} \cup
                {[ok |-> TRUE, data |-> d] : d \in {upstream[t.name].id, Tampered}}

\* tool.download_and_verify(tmp_path)
DownloadAndVerify ==
    /\ pc = "download"
    /\ \E response \in Responses(tool) :
         LET r == download_and_verify(tool, response, tmp_files[i]) IN
         /\ fetched' = response
         /\ tmp_files' = [tmp_files EXCEPT ![i] = r.file]
         /\ IF r.raised
            THEN Raise(r.stage)
            ELSE /\ pc' = "install"
                 /\ UNCHANGED <<i, success, tmp_dir, members, m, installed, c, outcomes>>
    /\ UNCHANGED <<registry, upstream, names, use_sudo, returned, tool,
                   runtime_dir, dest, dest_before>>

World(staging) == [staging |-> staging, dest |-> dest, runtime |-> runtime_dir,
                   installed |-> installed, raised |-> FALSE]

\* with tempfile.TemporaryDirectory() as tmp_dir: tool.install(tmp_path, tmp_dest)
\* up to the opening of the archive (BinaryTool.install: the whole of it)
InstallOpen ==
    /\ pc = "install"
    /\ LET archive == Decode(tmp_files[i].data) IN
       IF tool.kind = "Binary"
       THEN \E io_ok \in BOOLEAN :
              LET w == BinaryInstall(tool, tmp_files[i].data, World(<<>>), io_ok) IN
              IF w.raised
              THEN Raise("extract") /\ UNCHANGED <<dest, runtime_dir>>
              ELSE /\ tmp_dir' = [exists |-> TRUE, files |-> w.staging]
                   /\ installed' = w.installed
                   /\ dest' = w.dest
                   /\ runtime_dir' = w.runtime
                   /\ pc' = "copy"
                   /\ c' = 1
                   /\ UNCHANGED <<i, success, members, m, outcomes>>
       ELSE \E io_ok \in BOOLEAN :
            IF archive.fmt # OpenFormat(tool) \/ ~io_ok
            THEN Raise("extract") /\ UNCHANGED <<dest, runtime_dir>>
            ELSE /\ tmp_dir' = [exists |-> TRUE, files |-> <<>>]
                 /\ members' = archive.members
                 /\ m' = 1
                 /\ installed' = <<>>
                 /\ pc' = "extract"
                 /\ UNCHANGED <<i, success, c, outcomes, dest, runtime_dir>>
    /\ UNCHANGED <<fetched, registry, upstream, names, use_sudo, returned, tool,
                   tmp_files, dest_before>>

\* one iteration of the loop over the archive members inside tool.install
ExtractMember ==
    /\ pc = "extract"
    /\ m <= Len(members)
    /\ \E io_ok \in BOOLEAN :
         LET w == InstallStep(tool, members[m], World(tmp_dir.files), io_ok) IN
         /\ dest' = w.dest
         /\ runtime_dir' = w.runtime
         /\ IF w.raised
            THEN Raise("extract")
            ELSE /\ tmp_dir' = [tmp_dir EXCEPT !.files = w.staging]
                 /\ installed' = w.installed
                 /\ m' = m + 1
                 /\ UNCHANGED <<pc, i, success, members, c, outcomes>>
    /\ UNCHANGED <<fetched, registry, upstream, names, use_sudo, returned, tool,
                   tmp_files, dest_before>>

\* return installed
ExtractReturn ==
    /\ pc = "extract"
    /\ m > Len(members)
    /\ pc' = "copy"
    /\ c' = 1
    /\ UNCHANGED <<fetched, registry, upstream, names, use_sudo, i, success, returned,
                   tool, tmp_files, tmp_dir, members, m, installed,
                   runtime_dir, dest, dest_before, outcomes>>

\* one iteration of: for bin_name in installed
CopyEntry ==
    /\ pc = "copy"
    /\ c <= Len(installed)
    /\ \E outcome \in PlaceOutcomes :
         LET bin_name == installed[c]
             src == tmp_dir.files[bin_name]
             r == IF use_sudo THEN place_sudo(dest, bin_name, src, outcome)
                  ELSE place_direct(dest, bin_name, src, outcome)
         IN /\ dest' = r.dir
            /\ IF r.raised
               THEN Raise("copy")
               ELSE /\ c' = c + 1
                    /\ UNCHANGED <<pc, i, success, tmp_dir, members, m,
                                   installed, outcomes>>
    /\ UNCHANGED <<fetched, registry, upstream, names, use_sudo, returned, tool,
                   tmp_files, runtime_dir, dest_before>>

\* the end of the try block: the staging directory is left,
\* tmp_path.unlink(missing_ok=True), the post-install note, "done"
FinishTool ==
    /\ pc = "copy"
    /\ c > Len(installed)
    /\ LET nxt == try_completed(i, success) IN
       /\ i' = nxt.i
       /\ success' = nxt.success
    /\ tmp_dir' = NoDir
    /\ tmp_files' = [tmp_files EXCEPT ![i] = NoTmp]
    /\ pc' = "loop"
    /\ members' = <<>>
    /\ m' = 1
    /\ installed' = <<>>
    /\ c' = 1
    /\ outcomes' = Append(outcomes, [name |-> names[i], ok |-> TRUE,
                                     stage |-> "done", staged |-> Len(installed)])
    /\ UNCHANGED <<fetched, registry, upstream, names, use_sudo, returned, tool,
                   runtime_dir, dest, dest_before>>

\* return success
Return ==
    /\ pc = "loop"
    /\ i > Len(names)
    /\ pc' = "done"
    /\ returned' = success
    /\ UNCHANGED <<fetched, registry, upstream, names, use_sudo, i, success, tool,
                   tmp_files, tmp_dir, members, m, installed, c, runtime_dir,
                   dest, dest_before, outcomes>>

----------------------------------------------------------------------------
(* The registry and what its urls serve *)

Descriptor(name, kind, id, binaries, strip, binary_name) ==
    [name |-> name, kind |-> kind, sha256 |-> hexdigest(Sha256(id)),
     binaries |-> binaries, strip_components |-> strip,
     binary_name |-> binary_name]

File(name, data) == [name |-> name, type |-> "file", data |-> data]
Dir(name) == [name |-> name, type |-> "dir", data |-> 0]
Link(name) == [name |-> name, type |-> "link", data |-> 0]

\* TOOLS, one entry per class in use
TOOLS ==
    [n \in {"uv", "helix", "kubectl"} |->
        CASE n = "uv" -> Descriptor("uv", "TarGz", 1, {"uv", "uvx"}, 1, "")
          [] n = "helix" -> Descriptor("helix", "Helix", 2, {"hx"}, 1, "")
          [] OTHER -> Descriptor("kubectl", "Binary", 3, {}, 0, "kubectl")]

Served ==
    [n \in {"uv", "helix", "kubectl"} |->
        CASE n = "uv" ->
               [id |-> 1, fmt |-> "tar.gz",
                members |-> << Dir(<<"uv-x">>),
                               File(<<"uv-x", "uv">>, 11),
                               File(<<"uv-x", "uvx">>, 12),
                               File(<<"uv-x", "old", "uv">>, 13) >>]
          [] n = "helix" ->
               [id |-> 2, fmt |-> "tar.xz",
                members |-> << File(<<"helix-x", "hx">>, 21),
                               Dir(<<"helix-x", "runtime", "themes">>),
                               File(<<"helix-x", "runtime", "themes", "default.toml">>, 22) >>]
          [] OTHER -> [id |-> 3, fmt |-> "raw", members |-> <<>>]]

RequestNames == {"uv", "helix", "kubectl", "nope"}

SeqsUpTo(S, n) == UNION {[1..k -> S] : k \in 0..n}

\* a destination directory that already holds an older, non-executable uv
OldDest == [x \in {"uv"} |-> [content |-> 7, mode |-> DefaultMode]]

Idle ==
    /\ pc = "loop"
    /\ i = 1
    /\ success = TRUE
    /\ returned = FALSE
    /\ tmp_dir = NoDir
    /\ members = <<>>
    /\ m = 1
    /\ installed = <<>>
    /\ c = 1
    /\ runtime_dir = <<>>
    /\ fetched = URLError
    /\ outcomes = <<>>

Init ==
    /\ registry = TOOLS
    /\ upstream = Served
    /\ names \in SeqsUpTo(RequestNames, MaxNames)
    /\ use_sudo \in BOOLEAN
    /\ tool = TOOLS["uv"]
    /\ tmp_files = [k \in 1..Len(names) |-> NoTmp]
    /\ dest = OldDest
    /\ dest_before = dest
    /\ Idle

Next ==
    \/ UnknownTool
    \/ BeginInstall
    \/ DownloadAndVerify
    \/ InstallOpen
    \/ ExtractMember
    \/ ExtractReturn
    \/ CopyEntry
    \/ FinishTool
    \/ Return

Spec == Init /\ [][Next]_vars

----------------------------------------------------------------------------
(* One tool on its own: install() of an arbitrary descriptor on an        *)
(* arbitrary archive whose bytes have been verified and written, and the  *)
(* placement of what it returns.                                          *)

\* member names as the archive stores them: "hx", "d/hx", "d/uv", "d/b/uv",
\* "/./uv", "d/runtime/t", "d/runtime/t/f", "d/..", "d/runtime",
\* "runtime/runtime"
Entries ==
    { File(<<"hx">>, 1),
      File(<<"d", "hx">>, 2),
      File(<<"d", "uv">>, 3),
      File(<<"d", "b", "uv">>, 4),
      File(<<"", ".", "uv">>, 5),
      Dir(<<"d", "runtime", "t">>),
      File(<<"d", "runtime", "t", "f">>, 6),
      File(<<"d", "runtime", "t">>, 7),
      File(<<"d", "..">>, 8),
      Link(<<"d", "uv">>),
      Dir(<<"d", "runtime">>),
      Dir(<<"runtime", "runtime">>) }

\* a zip directory has files and directories only
ZipEntries == {e \in Entries : e.type # "link"}

GenericKinds == {"TarGz", "TarXz", "Zip"}

ExtractDescriptors ==
    { Descriptor("t", kind, 1, binaries, k, "") :
        kind \in {"TarGz", "Zip"}, binaries \in {{}, {"uv"}}, k \in 0..MaxStrip }
    \cup { Descriptor("t", "TarXz", 1, {"uv", "hx"}, 1, ""),
           TOOLS["helix"],
           TOOLS["kubectl"] }

ArchivesFor(t) ==
    IF t.kind = "Binary"
    THEN { [id |-> 1, fmt |-> "raw", members |-> <<>>] }
    ELSE { [id |-> 1, fmt |-> OpenFormat(t), members |-> ms] :
             ms \in SeqsUpTo(IF t.kind = "Zip" THEN ZipEntries ELSE Entries,
                             MaxMembers) }
         \cup { [id |-> 1, fmt |-> "junk", members |-> <<>>] }

InitExtract ==
    /\ \E t \in ExtractDescriptors :
         /\ tool = [t EXCEPT !.sha256 = hexdigest(Sha256(1))]
         /\ registry = [n \in {t.name} |-> tool]
         /\ \E a \in ArchivesFor(t) : upstream = [n \in {t.name} |-> a]
         /\ names = <<t.name>>
    /\ use_sudo = FALSE
    /\ pc = "install"
    /\ i = 1
    /\ success = TRUE
    /\ returned = FALSE
    /\ fetched = [ok |-> TRUE, data |-> 1]
    /\ tmp_files = <<[exists |-> TRUE, written |-> TRUE, data |-> 1]>>
    /\ tmp_dir = NoDir
    /\ members = <<>>
    /\ m = 1
    /\ installed = <<>>
    /\ c = 1
    /\ runtime_dir = <<>>
    /\ dest = <<>>
    /\ dest_before = dest
    /\ outcomes = <<>>

NextExtract ==
    \/ InstallOpen
    \/ ExtractMember
    \/ ExtractReturn
    \/ CopyEntry
    \/ FinishTool

SpecExtract == InitExtract /\ [][NextExtract]_vars

----------------------------------------------------------------------------
(* Verification on its own: download_and_verify of a descriptor whose     *)
(* expected digest is any spelling of any digest.                         *)

MixedCase(s) == [k \in 1..Len(s) |-> IF k % 2 = 1 THEN UpperChar(s[k]) ELSE s[k]]

Spellings(d) == {d, Upper(d), MixedCase(d)}

InitVerify ==
    /\ \E id \in 0..MaxData, pinned \in 0..MaxData :
         \E sha \in Spellings(hexdigest(Sha256(pinned))) :
            /\ registry = [n \in {"t"} |->
                             [Descriptor("t", "Binary", pinned, {}, 0, "t")
                                EXCEPT !.sha256 = sha]]
            /\ upstream = [n \in {"t"} |-> [id |-> id, fmt |-> "raw", members |-> <<>>]]
    /\ tool = registry["t"]
    /\ names = <<"t">>
    /\ use_sudo = FALSE
    /\ tmp_files = <<NoTmp>>
    /\ dest = <<>>
    /\ dest_before = dest
    /\ Idle

NextVerify ==
    \/ BeginInstall
    \/ DownloadAndVerify

SpecVerify == InitVerify /\ [][NextVerify]_vars

----------------------------------------------------------------------------
(* Properties *)

Finished == Len(outcomes)
LastOutcome == outcomes[Len(outcomes)]
BetweenNames == pc \in {"loop", "done"}
Digest(data) == hexdigest(Sha256(data))

\* C1: whenever install_tools moves on to the next name or returns, the
\* staging directory and the temporary artifact file of every attempt made
\* so far no longer exist.
C1_TempResourcesReleased ==
    BetweenNames =>
        /\ ~tmp_dir.exists
        /\ \A j \in DOMAIN tmp_files : ~tmp_files[j].exists

\* C2: the archive is opened, staged and copied only in an attempt whose
\* downloaded bytes hashed to the descriptor's expected digest, and an
\* artifact file only ever holds bytes that passed that check.
C2_VerifiedBeforeInstall ==
    /\ pc \in {"install", "extract", "copy"} =>
          /\ fetched.ok
          /\ Digest(fetched.data) = tool.sha256
          /\ tmp_files[i].written
          /\ tmp_files[i].data = fetched.data
    /\ pc = "download" => ~tmp_dir.exists /\ dest = dest_before
    /\ \A j \in DOMAIN tmp_files :
          tmp_files[j].written =>
             /\ names[j] \in DOMAIN registry
             /\ Digest(tmp_files[j].data) = registry[names[j]].sha256

\* a tampered download was turned away and a later tool is being placed
C2_Witness ==
    /\ pc = "copy"
    /\ c > 1
    /\ \E j \in 1..Finished : outcomes[j].stage = "hash"

\* C3: every requested name is processed exactly once, in order, whatever
\* happened to the names before it, and the returned flag is the
\* conjunction of the per-name outcomes.
C3_BatchNeverAborts ==
    /\ Finished = i - 1
    /\ i <= Len(names) + 1
    /\ \A j \in 1..Finished : outcomes[j].name = names[j]
    /\ success <=> \A j \in 1..Finished : outcomes[j].ok
    /\ pc = "done" =>
          /\ Finished = Len(names)
          /\ returned <=> \A j \in 1..Len(names) : outcomes[j].ok

\* [known_ok, unknown, known_badhash]: failure, known_ok installed
C3_Witness ==
    /\ pc = "done"
    /\ Len(names) = 3
    /\ outcomes[1].ok /\ names[1] = "kubectl"
    /\ outcomes[2].stage = "unknown"
    /\ outcomes[3].stage = "hash"
    /\ ~returned
    /\ "kubectl" \in DOMAIN dest
    /\ dest["kubectl"] = [content |-> 3, mode |-> ExecMode]

\* C4: until extraction has returned the destination directory is what it
\* was when the attempt began, and it still is after an attempt that failed
\* at fetch, at verification or during extraction.
C4_FailedAttemptLeavesDest ==
    /\ pc \in {"download", "install", "extract"} => dest = dest_before
    /\ (BetweenNames /\ Finished > 0
          /\ LastOutcome.stage \in {"fetch", "hash", "extract"})
        => dest = dest_before

\* extraction failed after it had already staged a file
C4_Witness ==
    /\ pc = "loop"
    /\ Finished > 0
    /\ LastOutcome.stage = "extract"
    /\ LastOutcome.staged > 0
    /\ dest = dest_before

\* C5 as stated: a hash mismatch is reported only when the computed and the
\* expected digest differ after both are lowercased.
C5_CaseInsensitive ==
    (BetweenNames /\ Finished > 0 /\ LastOutcome.stage = "hash")
        => Lower(Digest(fetched.data)) # Lower(tool.sha256)

\* C5 amended: the computed lowercase hex digest is compared with the
\* expected digest exactly as stored; the bytes are accepted if and only if
\* the two are the same string.
C5_ExactComparison ==
    /\ pc = "install" => Digest(fetched.data) = tool.sha256
    /\ (BetweenNames /\ Finished > 0 /\ LastOutcome.stage = "hash")
          => fetched.ok /\ Digest(fetched.data) # tool.sha256
    /\ (Finished > 0 /\ fetched.ok /\ Digest(fetched.data) # tool.sha256)
          => LastOutcome.stage = "hash" /\ ~tmp_files[1].written

\* an expected digest that differs from the computed one in case only
\* was reported as a mismatch
C5_Witness ==
    /\ Finished > 0
    /\ LastOutcome.stage = "hash"
    /\ tool.sha256 # Digest(fetched.data)
    /\ Lower(tool.sha256) = Digest(fetched.data)

----------------------------------------------------------------------------
(* Properties of extraction *)

IsGeneric == tool.kind \in GenericKinds
Extracting == pc \in {"extract", "copy"}
Seen == 1..(m - 1)             \* members the loop has been through
PartsOf(k) == PathParts(members[k].name)

\* C6: generic extraction with strip_components = k: every emitted name is
\* the final path segment of a file entry with more than k segments and is a
\* single segment, and entries with k or fewer segments add nothing.
C6_StripAndBasename ==
    (IsGeneric /\ Extracting) =>
        /\ \A j \in 1..Len(installed) :
              /\ IsComponent(installed[j]) /\ installed[j] # "/"
              /\ \E k \in Seen :
                    /\ Len(PartsOf(k)) > tool.strip_components
                    /\ installed[j] = PartsOf(k)[Len(PartsOf(k))]
        /\ Len(installed) <=
              Cardinality({k \in Seen : Len(PartsOf(k)) > tool.strip_components})

\* strip 1 dropped a one-segment file and kept a deeper one
C6_Witness ==
    /\ IsGeneric
    /\ pc = "copy"
    /\ tool.strip_components = 1
    /\ Len(installed) = 1
    /\ \E k \in Seen : members[k].type = "file" /\ Len(PartsOf(k)) = 1

Survives(e) == e.type = "file" /\ Len(PathParts(e.name)) > tool.strip_components

BaseNames(es) == [j \in 1..Len(es) |-> Last(PathParts(es[j].name))]

RECURSIVE After(_, _)
\* the parts that follow the first part equal to x
After(parts, x) ==
    IF parts = <<>> THEN <<>>
    ELSE IF Head(parts) = x THEN Tail(parts)
    ELSE After(Tail(parts), x)

IsHelix == tool.kind = "Helix"
AllMembers == 1..Len(members)
IsHx(k) == members[k].type = "file" /\ Last(PartsOf(k)) = "hx"
RuntimeRel(k) == After(PartsOf(k), "runtime")
IsRuntimeEntry(k) ==
    /\ Len(PartsOf(k)) >= 2
    /\ ~IsHx(k)
    /\ members[k].type \in {"file", "dir"}
    /\ RuntimeRel(k) # <<>>

\* the runtime tree holds what the runtime entries put there and no more
RuntimeTreeIs(entries) ==
    /\ DOMAIN runtime_dir = UNION {Prefixes(RuntimeRel(k)) : k \in entries}
    /\ \A k \in entries :
          LET rel == RuntimeRel(k) IN
          /\ \A q \in Prefixes(rel) : q # rel => runtime_dir[q].type = "dir"
          /\ runtime_dir[rel].type = members[k].type
          /\ (members[k].type = "file"
                /\ \A l \in entries : l > k => RuntimeRel(l) # rel)
             => runtime_dir[rel].content = members[k].data

\* C8 as stated: every file entry whose final segment is "hx" is returned,
\* every other entry under a "runtime" segment goes to the runtime tree.
C8_EveryHxReturned ==
    (IsHelix /\ pc = "copy") =>
        /\ Len(installed) = Cardinality({k \in AllMembers : IsHx(k)})
        /\ \A j \in 1..Len(installed) : installed[j] = "hx"

\* C8 amended: among the entries with at least two path segments, every file
\* entry whose final segment is "hx" is returned as hx, and every other file
\* or directory entry with a segment after its first "runtime" segment is
\* written under the runtime root at that remaining path, parents created,
\* and never returned; entries with a single segment are ignored.
C8_HelixDualOutput ==
    (IsHelix /\ pc = "copy") =>
        /\ Len(installed) =
              Cardinality({k \in AllMembers : IsHx(k) /\ Len(PartsOf(k)) >= 2})
        /\ \A j \in 1..Len(installed) : installed[j] = "hx"
        /\ DOMAIN tmp_dir.files \subseteq {"hx"}
        /\ RuntimeTreeIs({k \in AllMembers : IsRuntimeEntry(k)})
        /\ DOMAIN dest \subseteq (DOMAIN dest_before) \cup {"hx"}

\* d/hx and d/runtime/t/f: one returned entry hx, a runtime file t/f
C8_Witness ==
    /\ IsHelix
    /\ pc = "copy"
    /\ installed = <<"hx">>
    /\ <<"t", "f">> \in DOMAIN runtime_dir
    /\ runtime_dir[<<"t", "f">>] = [type |-> "file", content |-> 6]
    /\ runtime_dir[<<"t">>].type = "dir"

----------------------------------------------------------------------------
(* Properties of placement *)

AllPlaced == pc = "copy" /\ c > Len(installed)
Repeated ==
    /\ AllPlaced
    /\ Finished > 0
    /\ LastOutcome.ok
    /\ LastOutcome.name = names[i]

\* C9: when a tool has been installed and is installed again right after,
\* the destination ends with the files, contents and mode 0755 it had after
\* the first install.
C9_Idempotent ==
    Repeated =>
        /\ dest = dest_before
        /\ \A j \in 1..Len(installed) :
              /\ installed[j] \in DOMAIN dest
              /\ dest[installed[j]].mode = ExecMode
              /\ dest[installed[j]].content = tmp_dir.files[installed[j]].content

\* uv placed twice through sudo over an older non-executable uv
C9_Witness ==
    /\ Repeated
    /\ names[i] = "uv"
    /\ use_sudo
    /\ Len(installed) > 0

Passes(e) ==
    /\ e.type = "file"
    /\ Len(PathParts(e.name)) > tool.strip_components
    /\ (tool.binaries = {} \/ Last(PathParts(e.name)) \in tool.binaries)

\* C10: entries that reduce to the same name are all emitted, in archive
\* order, and after the placement the destination file of that name holds
\* the content of the last of them.
C10_LastWriteWins ==
    (IsGeneric /\ pc = "copy") =>
        /\ installed = BaseNames(SelectSeq(members, Passes))
        /\ AllPlaced =>
              \A k \in AllMembers :
                 (Passes(members[k])
                    /\ \A l \in AllMembers :
                          (l > k /\ Passes(members[l])) => Last(PartsOf(l)) # Last(PartsOf(k)))
                 => dest[Last(PartsOf(k))].content = members[k].data

\* d/uv and d/b/uv both emitted, the later one is what is installed
C10_Witness ==
    /\ IsGeneric
    /\ AllPlaced
    /\ installed = <<"uv", "uv">>
    /\ members[1].data # members[2].data
    /\ dest["uv"].content = members[2].data

====
